---- MODULE Spec2Model ----
(***************************************************************************)
(* GridWorldEnv of simple_grid_world/envs/grid_world.py as a state machine. *)
(* A position is a pair <<r, c>>; a missing position (Python None, or an    *)
(* attribute that does not exist yet) is the empty tuple NoPos.  The draws  *)
(* of the process-wide numpy generator np.random are nondeterministic.      *)
(***************************************************************************)
EXTENDS Integers, Sequences, FiniteSets, TLC

\* ---------------------------------------------------------------- bounds
MaxRow == 2
MaxCol == 2
MaxCount == 2
MaxTargets == 2
MaxPaid == 2

\* ---------------------------------------------------------------- values
NoPos == <<>>
NoSeed == <<>>

Seeds == {0}
SeedArgs == {NoSeed} \cup {<<s>> : s \in Seeds}

RenderModes == {"human", "rgb_array"}
RenderModeArgs == {"None", "ansi"} \cup RenderModes

ActionArgs == -1 .. 4

RewardArgs == {<<1, 0>>, <<2, -1>>}

\* np.random.randint(low=[0, 0], high=[row, col], size=2): high is exclusive.
RandPositions(r, c) == (0 .. r - 1) \X (0 .. c - 1)

\* Explicit positions a caller may hand to the constructor: the two corners of
\* the grid and a position outside it (row below 0, column beyond col - 1).
ExplicitPositions(r, c) == {<<0, 0>>, <<r - 1, c - 1>>, <<-1, c>>}

AgentArgs(r, c) == {NoPos} \cup ExplicitPositions(r, c)

CountArg(n) == [kind |-> "count", n |-> n, list |-> <<>>]
ListArg(l) == [kind |-> "list", n |-> 0, list |-> l]

TargetArgs(r, c) ==
    {CountArg(n) : n \in 0 .. MaxCount}
    \cup {ListArg(l) : l \in UNION {[1 .. k -> ExplicitPositions(r, c)] : k \in 0 .. MaxTargets}}

\* ---------------------------------------------------------------- state
VARIABLES
    pc,                  \* "new", "sampling", "failed", "UNINITIALIZED", "READY"
    args,                \* the parameters the constructor was called with
    row, col,            \* self.row, self.col
    init_agent,          \* self.init_agent (NoPos models np.array(None))
    target,              \* the local list of the constructor's sampling loop
    init_target,         \* self.init_target
    term_reward, step_reward,
    render_mode,         \* self.render_mode
    window, clock,       \* self.window, self.clock ("None" or "created")
    display,             \* pygame's display: "none", "open", "quit"
    agent_location,      \* self.agent_location (NoPos until reset sets it)
    target_location,     \* self.target_location (meaningful once pc = "READY")
    ret,                 \* outcome of the last call
    twin,                \* a second run of the program (SpecDet only)
    paid                 \* terminal rewards returned since the last reset (SpecPaid only)

objvars == <<row, col, init_agent, init_target, term_reward, step_reward, render_mode>>
rendervars == <<window, clock, display>>
vars == <<pc, args, row, col, init_agent, target, init_target, term_reward,
          step_reward, render_mode, window, clock, display,
          agent_location, target_location, ret, twin, paid>>
observers == <<twin, paid>>

Ret(op, action, raised, reward, terminated) ==
    [op |-> op, action |-> action, raised |-> raised, reward |-> reward,
     terminated |-> terminated]

Returned(op) == Ret(op, 0, "none", 0, FALSE)
Raised(op, action, exc) == Ret(op, action, exc, 0, FALSE)

\* ---------------------------------------------------------------- pure parts
\* Mutant of ActionToDirection: up and down exchanged.
ActionToDirectionFlipped ==
    (0 :> <<0, 1>>) @@ (1 :> <<1, 0>>) @@ (2 :> <<0, -1>>) @@ (3 :> <<-1, 0>>)

\* self._action_to_direction
ActionToDirection ==
    (0 :> <<0, 1>>) @@ (1 :> <<-1, 0>>) @@ (2 :> <<0, -1>>) @@ (3 :> <<1, 0>>)

Min(a, b) == IF a < b THEN a ELSE b
Max(a, b) == IF a > b THEN a ELSE b

\* Mutant of ClipCoord: a value beyond the upper limit wraps to the lower one.
ClipCoordWrap(x, lo, hi) == IF x > hi THEN lo ELSE Max(x, lo)

\* np.clip(x, lo, hi) on one coordinate: minimum(maximum(x, lo), hi)
ClipCoord(x, lo, hi) == Min(Max(x, lo), hi)

\* Mutant of Clip: the upper limits are not applied.
ClipLowerOnly(p, r, c) == <<Max(p[1], 0), Max(p[2], 0)>>

\* np.clip(p, [0, 0], [row - 1, col - 1])
Clip(p, r, c) == <<ClipCoord(p[1], 0, r - 1), ClipCoord(p[2], 0, c - 1)>>

\* self.agent_location + direction, clipped
Move(p, action, r, c) ==
    Clip(<<p[1] + ActionToDirection[action][1], p[2] + ActionToDirection[action][2]>>, r, c)

\* np.array_equal on two positions
ArrayEqual(a, b) == a = b

\* Mutant of TerminatedLoop: the loop does not break, so the last target decides.
RECURSIVE TerminatedLoopNoBreak(_, _, _, _)
TerminatedLoopNoBreak(agent, targets, i, terminated) ==
    IF i > Len(targets) THEN terminated
    ELSE TerminatedLoopNoBreak(agent, targets, i + 1, ArrayEqual(agent, targets[i]))

\* The loop of step over self.target_location: terminated is assigned per target
\* and the loop breaks as soon as it is true.
RECURSIVE TerminatedLoop(_, _, _, _)
TerminatedLoop(agent, targets, i, terminated) ==
    IF i > Len(targets) THEN terminated
    ELSE IF ArrayEqual(agent, targets[i]) THEN TRUE
         ELSE TerminatedLoop(agent, targets, i + 1, FALSE)

Terminated(agent, targets) == TerminatedLoop(agent, targets, 1, FALSE)

\* Mutant of Reward: the two constants exchanged.
RewardSwapped(terminated, term, step) == IF terminated THEN step ELSE term

\* reward = self.term_reward if terminated else self.step_reward
Reward(terminated, term, step) == IF terminated THEN term ELSE step

\* (self.init_agent != new).any(): np.array(None) != new is True elementwise.
DiffersFromAgent(agent, new) ==
    IF agent = NoPos THEN TRUE ELSE agent[1] # new[1] \/ agent[2] # new[2]

\* all((new != t).any() for t in target) and (self.init_agent != new).any()
Accepts(tgt, agent, new) ==
    /\ \A i \in 1 .. Len(tgt) : new[1] # tgt[i][1] \/ new[2] # tgt[i][2]
    /\ DiffersFromAgent(agent, new)

\* `self.init_agent == None` used as a condition: np.array(None) == None is True;
\* a two-element array compared with None gives a two-element array, whose truth
\* value raises ValueError.
InitAgentIsNone(agent) == IF agent = NoPos THEN "True" ELSE "ValueError"

\* assert render_mode is None or render_mode in self.metadata["render_modes"]
RenderModeOk(mode) == mode = "None" \/ mode \in RenderModes

\* ---------------------------------------------------------------- construction
Args(agent, tgt, mode, r, c, rewards) ==
    [agent_location |-> agent, target_location |-> tgt, render_mode |-> mode,
     row |-> r, col |-> c, term_reward |-> rewards[1], step_reward |-> rewards[2]]

NoArgs == Args(NoPos, CountArg(0), "None", 0, 0, <<0, 0>>)

\* The constructor's arguments: positions are taken relative to the grid asked for.
ArgSets ==
    UNION {{Args(agent, tgt, mode, r, c, rewards) :
                agent \in AgentArgs(r, c), tgt \in TargetArgs(r, c),
                mode \in RenderModeArgs, rewards \in RewardArgs} :
           r \in 1 .. MaxRow, c \in 1 .. MaxCol}

\* The rest of __init__ once the target list is known: the object exists unless
\* the assertion on render_mode fails.
InitCall(a, tgt) ==
    IF RenderModeOk(a.render_mode)
    THEN [pc |-> "UNINITIALIZED", init_target |-> tgt, ret |-> Returned("init")]
    ELSE [pc |-> "failed", init_target |-> tgt,
          ret |-> Raised("init", 0, "AssertionError")]

\* One pass of the sampling loop on the list tgt with the draw `new`.
SampleCall(tgt, agent, new) ==
    IF Accepts(tgt, agent, new) THEN Append(tgt, new) ELSE tgt

\* while len(target) < target_location
LoopRuns(tgt, n) == Len(tgt) < n

\* ---------------------------------------------------------------- rendering
\* _render_frame in human mode: the window and the clock are created when they
\* are None; drawing to a window whose display was quit raises pygame.error.
BlitRaises == window # "None" /\ display = "quit"

RenderFrameHuman ==
    /\ window' = "created"
    /\ clock' = "created"
    /\ display' = IF window = "None" THEN "open" ELSE display

\* ---------------------------------------------------------------- reset, step
\* Mutant of ResetCall: the target set is re-derived from this reset's draw.
ResetCallRedraw(p, agent, targets, itarget, seed, drawn) ==
    IF InitAgentIsNone(init_agent) = "ValueError"
    THEN [pc |-> p, agent_location |-> agent, target_location |-> targets,
          ret |-> Raised("reset", 0, "ValueError"), rendered |-> FALSE]
    ELSE [pc |-> "READY", agent_location |-> drawn, target_location |-> <<drawn>>,
          ret |-> IF render_mode = "human" /\ BlitRaises
                  THEN Raised("reset", 0, "pygame.error") ELSE Returned("reset"),
          rendered |-> render_mode = "human"]

\* reset on an object whose state is (p, agent, targets), with `drawn` the draw
\* of np.random.randint; `seed` only seeds self.np_random, which is never drawn from.
ResetCall(p, agent, targets, itarget, seed, drawn) ==
    IF InitAgentIsNone(init_agent) = "ValueError"
    THEN [pc |-> p, agent_location |-> agent, target_location |-> targets,
          ret |-> Raised("reset", 0, "ValueError"), rendered |-> FALSE]
    ELSE [pc |-> "READY", agent_location |-> drawn, target_location |-> itarget,
          ret |-> IF render_mode = "human" /\ BlitRaises
                  THEN Raised("reset", 0, "pygame.error") ELSE Returned("reset"),
          rendered |-> render_mode = "human"]

\* Mutant of StepCall: an unrecognized action falls back to action 0.
StepCallDefaultAction(p, agent, targets, action) ==
    IF p # "READY"
    THEN [agent_location |-> agent, ret |-> Raised("step", action, "AttributeError"),
          rendered |-> FALSE]
    ELSE LET known == IF action \in DOMAIN ActionToDirection THEN action ELSE 0
             moved == Move(agent, known, row, col)
             terminated == Terminated(moved, targets)
             reward == Reward(terminated, term_reward, step_reward)
         IN  [agent_location |-> moved,
              ret |-> IF render_mode = "human" /\ BlitRaises
                      THEN Raised("step", action, "pygame.error")
                      ELSE Ret("step", action, "none", reward, terminated),
              rendered |-> render_mode = "human"]

\* Mutant of StepCall: before any reset the agent is taken to stand at (0,0).
StepCallFromOrigin(p, agent, targets, action) ==
    IF action \notin DOMAIN ActionToDirection
    THEN [agent_location |-> agent, ret |-> Raised("step", action, "KeyError"),
          rendered |-> FALSE]
    ELSE LET from == IF p # "READY" THEN <<0, 0>> ELSE agent
             moved == Move(from, action, row, col)
             terminated == Terminated(moved, targets)
             reward == Reward(terminated, term_reward, step_reward)
         IN  [agent_location |-> moved,
              ret |-> IF render_mode = "human" /\ BlitRaises
                      THEN Raised("step", action, "pygame.error")
                      ELSE Ret("step", action, "none", reward, terminated),
              rendered |-> render_mode = "human"]

\* Mutant of StepCall: once the agent stands on a target, step refuses to move it.
StepCallLockout(p, agent, targets, action) ==
    IF action \notin DOMAIN ActionToDirection
    THEN [agent_location |-> agent, ret |-> Raised("step", action, "KeyError"),
          rendered |-> FALSE]
    ELSE IF p # "READY"
    THEN [agent_location |-> agent, ret |-> Raised("step", action, "AttributeError"),
          rendered |-> FALSE]
    ELSE IF Terminated(agent, targets)
    THEN [agent_location |-> agent, ret |-> Raised("step", action, "RuntimeError"),
          rendered |-> FALSE]
    ELSE LET moved == Move(agent, action, row, col)
             terminated == Terminated(moved, targets)
             reward == Reward(terminated, term_reward, step_reward)
         IN  [agent_location |-> moved,
              ret |-> IF render_mode = "human" /\ BlitRaises
                      THEN Raised("step", action, "pygame.error")
                      ELSE Ret("step", action, "none", reward, terminated),
              rendered |-> render_mode = "human"]

\* Mutant of StepCall: only arriving on a target terminates; a step that leaves
\* the agent on the target it already stood on does not.
StepCallArrivalOnly(p, agent, targets, action) ==
    IF action \notin DOMAIN ActionToDirection
    THEN [agent_location |-> agent, ret |-> Raised("step", action, "KeyError"),
          rendered |-> FALSE]
    ELSE IF p # "READY"
    THEN [agent_location |-> agent, ret |-> Raised("step", action, "AttributeError"),
          rendered |-> FALSE]
    ELSE LET moved == Move(agent, action, row, col)
             terminated == Terminated(moved, targets) /\ ~Terminated(agent, targets)
             reward == Reward(terminated, term_reward, step_reward)
         IN  [agent_location |-> moved,
              ret |-> IF render_mode = "human" /\ BlitRaises
                      THEN Raised("step", action, "pygame.error")
                      ELSE Ret("step", action, "none", reward, terminated),
              rendered |-> render_mode = "human"]

\* step(action) on an object whose state is (p, agent, targets).
StepCall(p, agent, targets, action) ==
    IF action \notin DOMAIN ActionToDirection
    THEN [agent_location |-> agent, ret |-> Raised("step", action, "KeyError"),
          rendered |-> FALSE]
    ELSE IF p # "READY"
    THEN [agent_location |-> agent, ret |-> Raised("step", action, "AttributeError"),
          rendered |-> FALSE]
    ELSE LET moved == Move(agent, action, row, col)
             terminated == Terminated(moved, targets)
             reward == Reward(terminated, term_reward, step_reward)
         IN  [agent_location |-> moved,
              ret |-> IF render_mode = "human" /\ BlitRaises
                      THEN Raised("step", action, "pygame.error")
                      ELSE Ret("step", action, "none", reward, terminated),
              rendered |-> render_mode = "human"]

\* ---------------------------------------------------------------- actions
InitEnv ==
    /\ pc = "new"
    /\ args = NoArgs
    /\ row = 0 /\ col = 0
    /\ init_agent = NoPos
    /\ target = <<>>
    /\ init_target = <<>>
    /\ term_reward = 0 /\ step_reward = 0
    /\ render_mode = "None"
    /\ window = "None" /\ clock = "None" /\ display = "none"
    /\ agent_location = NoPos
    /\ target_location = <<>>
    /\ ret = Returned("none")

Init == InitEnv /\ twin = [pc |-> "none"] /\ paid = 0

\* __init__ from `self.init_target = ...` to its end.
FinishInit(a, tgt) ==
    /\ init_target' = InitCall(a, tgt).init_target
    /\ term_reward' = a.term_reward
    /\ step_reward' = a.step_reward
    /\ render_mode' = IF RenderModeOk(a.render_mode) THEN a.render_mode ELSE render_mode
    /\ pc' = InitCall(a, tgt).pc
    /\ ret' = InitCall(a, tgt).ret
    /\ window' = "None" /\ clock' = "None"

\* __init__ up to the first test of the sampling loop; with an explicit target
\* list, or a count the empty list already meets, the whole of __init__.
Construct(a) ==
    /\ pc = "new"
    /\ args' = a
    /\ row' = a.row /\ col' = a.col
    /\ init_agent' = a.agent_location
    /\ IF a.target_location.kind = "count"
       THEN IF LoopRuns(<<>>, a.target_location.n)
            THEN /\ pc' = "sampling"
                 /\ target' = <<>>
                 /\ UNCHANGED <<init_target, term_reward, step_reward, render_mode,
                                window, clock, ret>>
            ELSE /\ target' = <<>>
                 /\ FinishInit(a, <<>>)
       ELSE /\ target' = target
            /\ FinishInit(a, a.target_location.list)
    /\ UNCHANGED <<display, agent_location, target_location>>

\* One pass of the sampling loop: draw `new`, append it when it is accepted, and
\* run the rest of __init__ when the list has reached the requested length.
SampleTarget(new) ==
    /\ pc = "sampling"
    /\ new \in RandPositions(row, col)
    /\ target' = SampleCall(target, init_agent, new)
    /\ IF LoopRuns(target', args.target_location.n)
       THEN UNCHANGED <<pc, init_target, term_reward, step_reward,
                        render_mode, window, clock, ret>>
       ELSE FinishInit(args, target')
    /\ UNCHANGED <<args, row, col, init_agent, display,
                   agent_location, target_location>>

Constructed == pc \in {"UNINITIALIZED", "READY"}

Reset(seed, drawn) ==
    /\ Constructed
    /\ seed \in SeedArgs
    /\ drawn \in RandPositions(row, col)
    /\ LET r == ResetCall(pc, agent_location, target_location, init_target, seed, drawn)
       IN  /\ pc' = r.pc
           /\ agent_location' = r.agent_location
           /\ target_location' = r.target_location
           /\ ret' = r.ret
           /\ IF r.rendered THEN RenderFrameHuman ELSE UNCHANGED rendervars
    /\ UNCHANGED <<args, objvars, target>>

\* Mutant of Step: a target the agent has reached is taken out of the target set.
StepConsumesTarget(action) ==
    /\ Constructed
    /\ LET r == StepCall(pc, agent_location, target_location, action)
           left(t) == t # r.agent_location
       IN  /\ agent_location' = r.agent_location
           /\ ret' = r.ret
           /\ target_location' = IF pc = "READY" THEN SelectSeq(target_location, left)
                                  ELSE target_location
           /\ IF r.rendered THEN RenderFrameHuman ELSE UNCHANGED rendervars
    /\ UNCHANGED <<pc, args, objvars, target>>

Step(action) ==
    /\ Constructed
    /\ LET r == StepCall(pc, agent_location, target_location, action)
       IN  /\ agent_location' = r.agent_location
           /\ ret' = r.ret
           /\ IF r.rendered THEN RenderFrameHuman ELSE UNCHANGED rendervars
    /\ UNCHANGED <<pc, args, objvars, target, target_location>>

\* render(): a frame is drawn only in rgb_array mode, and needs the locations.
Render ==
    /\ Constructed
    /\ ret' = IF render_mode = "rgb_array" /\ pc # "READY"
              THEN Raised("render", 0, "AttributeError")
              ELSE Returned("render")
    /\ UNCHANGED <<pc, args, objvars, target, rendervars,
                   agent_location, target_location>>

\* Mutant of Close: quitting a display that was already quit raises.
CloseOnceOnly ==
    /\ Constructed
    /\ display' = IF window # "None" THEN "quit" ELSE display
    /\ ret' = IF window # "None" /\ display = "quit"
              THEN Raised("close", 0, "pygame.error") ELSE Returned("close")
    /\ UNCHANGED <<pc, args, objvars, target, window, clock,
                   agent_location, target_location>>

\* close(): pygame.display.quit() and pygame.quit() when a window was created;
\* both may be called again on a display that is already quit.
Close ==
    /\ Constructed
    /\ display' = IF window # "None" THEN "quit" ELSE display
    /\ ret' = Returned("close")
    /\ UNCHANGED <<pc, args, objvars, target, window, clock,
                   agent_location, target_location>>

\* ---------------------------------------------------------------- specification
Next ==
    \/ pc = "new" /\ \E a \in ArgSets : Construct(a) /\ UNCHANGED observers
    \/ \E new \in RandPositions(row, col) : SampleTarget(new) /\ UNCHANGED observers
    \/ \E seed \in SeedArgs, drawn \in RandPositions(row, col) :
          Reset(seed, drawn) /\ UNCHANGED observers
    \/ \E action \in ActionArgs : Step(action) /\ UNCHANGED observers
    \/ Render /\ UNCHANGED observers
    \/ Close /\ UNCHANGED observers

Spec == Init /\ [][Next]_vars

\* ---------------------------------------------------------------- properties
InGrid(p) == /\ 0 <= p[1] /\ p[1] <= row - 1
             /\ 0 <= p[2] /\ p[2] <= col - 1

StepReturned == ret.op = "step" /\ ret.raised = "none"
ResetReturned == ret.op = "reset" /\ ret.raised = "none"

ByCount == args.target_location.kind = "count"
ByList == args.target_location.kind = "list"

\* C1: once reset has established the agent position, it lies within
\* [0, rows-1] x [0, cols-1] in every state, whatever steps are taken.
C1_AgentInBounds == pc = "READY" => InGrid(agent_location)

\* C1 witness: a step to the right has returned with the agent in the last column
\* of a two-column grid.
C1_Witness ==
    /\ StepReturned /\ ret.action = 0
    /\ row = MaxRow /\ col = MaxCol
    /\ agent_location = <<1, col - 1>>

\* C2: a step that returns reports terminated exactly when the agent's position
\* after the move equals some position of the target set.
C2_TerminatedIffOnTarget ==
    StepReturned =>
        (ret.terminated <=>
            \E i \in 1 .. Len(target_location) : target_location[i] = agent_location)

\* C2 witness: a step has returned terminated with the agent on the first of two
\* targets and not on the second.
C2_Witness ==
    /\ StepReturned /\ ret.terminated
    /\ Len(target_location) = 2
    /\ target_location[1] = agent_location
    /\ target_location[2] # agent_location

\* C3: a step that returns pays term_reward when it reports terminated and
\* step_reward when it does not.
C3_RewardMatchesTerminated ==
    StepReturned =>
        /\ ret.terminated => ret.reward = term_reward
        /\ ~ret.terminated => ret.reward = step_reward

\* C3 witness: a terminating step has paid a terminal reward that differs from
\* the step reward.
C3_Witness ==
    /\ StepReturned /\ ret.terminated
    /\ ret.reward = term_reward /\ term_reward # step_reward

\* The direction vectors and the clamping as the claim states them.
C4_Direction(a) ==
    CASE a = 0 -> <<0, 1>> [] a = 1 -> <<-1, 0>> [] a = 2 -> <<0, -1>> [] a = 3 -> <<1, 0>>

C4_Clamp(x, n) == IF x < 0 THEN 0 ELSE IF x > n - 1 THEN n - 1 ELSE x

C4_Expected(p, a) ==
    <<C4_Clamp(p[1] + C4_Direction(a)[1], row), C4_Clamp(p[2] + C4_Direction(a)[2], col)>>

\* C4: a step with action 0..3 on a reset environment sets the agent position to
\* the old position plus d(action), each coordinate clamped on its own.
C4_StepMovesAndClamps ==
    [][(pc = "READY" /\ ret'.op = "step" /\ ret'.action \in 0 .. 3)
          => agent_location' = C4_Expected(agent_location, ret'.action)]_vars

\* C4 witness: a step down has moved the agent into row 1 of a 2 x 2 grid.
C4_Witness ==
    /\ ret.op = "step" /\ ret.action = 3 /\ ret.raised = "none"
    /\ row = 2 /\ col = 2
    /\ agent_location = <<1, 0>>

\* C5: a step with an action outside 0..3 raises and leaves the agent position
\* and the target set as they were.
C5_BadActionRaises ==
    [][(ret'.op = "step" /\ ret'.action \notin 0 .. 3)
          => /\ ret'.raised = "KeyError"
             /\ agent_location' = agent_location
             /\ target_location' = target_location
             /\ init_target' = init_target]_vars

\* C5 witness: on a reset environment a step with action 4 has raised KeyError.
C5_Witness ==
    /\ pc = "READY"
    /\ ret.op = "step" /\ ret.action = 4 /\ ret.raised = "KeyError"

\* C6 (as claimed): no environment with an explicit agent or target position
\* outside the grid gets as far as a reset or a step that returns.
C6_ExplicitPositionsValidated ==
    (ResetReturned \/ StepReturned) =>
        /\ init_agent # NoPos => InGrid(init_agent)
        /\ ByList => \A i \in 1 .. Len(init_target) : InGrid(init_target[i])

Distinct(seq) == \A i, j \in 1 .. Len(seq) : i # j => seq[i] # seq[j]

\* C7 (as claimed): with targets requested by a count N <= rows*cols - 1, after a
\* reset that returns the target set holds N pairwise-distinct positions, none of
\* them the agent position that reset established.
C7_RandomTargetsAvoidAgent ==
    (ResetReturned /\ ByCount /\ args.target_location.n <= row * col - 1) =>
        /\ Len(target_location) = args.target_location.n
        /\ Distinct(target_location)
        /\ \A i \in 1 .. Len(target_location) : target_location[i] # agent_location

\* C8 (as claimed): every reset succeeds, and leaves the agent at the explicit
\* position given at construction, or else somewhere within the grid.
C8_ResetSucceeds ==
    ret.op = "reset" =>
        /\ ret.raised = "none"
        /\ init_agent # NoPos => agent_location = init_agent
        /\ init_agent = NoPos => InGrid(agent_location)

\* C9 (as claimed): with targets requested by count, a reset draws the target set
\* afresh, so a reset of a reset environment can give a different target set.
C9_ResetRedrawsTargets ==
    (pc = "READY" /\ ByCount /\ 1 <= args.target_location.n
        /\ args.target_location.n <= row * col - 1) =>
        ENABLED (\E seed \in SeedArgs, drawn \in RandPositions(row, col) :
                    Reset(seed, drawn) /\ target_location' # target_location)

\* C9 (amended): the target set is fixed when construction ends; every reset that
\* gets past the agent position installs exactly that set, which is the supplied
\* list when targets were given explicitly, so resets never change the target set.
C9_ResetReusesInitTarget ==
    [][/\ Constructed => init_target' = init_target
       /\ (ret'.op = "reset" /\ ret'.raised # "ValueError") =>
             /\ target_location' = init_target
             /\ ByList => target_location' = args.target_location.list
             /\ pc = "READY" => target_location' = target_location]_vars

\* C9 witness: a reset has returned on a grid of several cells with the single
\* target that was drawn at construction installed as the target set.
C9_Witness ==
    /\ ResetReturned /\ ByCount /\ args.target_location.n = 1
    /\ row * col >= 2
    /\ target_location = init_target
    /\ Len(target_location) = 1

\* ---------------------------------------------------------------- two runs
\* A second run of the same program: constructed with the same arguments, reset
\* with the same seeds and stepped with the same actions as the first.  It has
\* its own draws of np.random; every field that no draw influences has the same
\* value in both runs and is read from the first.
NewTwin ==
    [pc |-> "new", target |-> <<>>, init_target |-> <<>>, agent_location |-> NoPos,
     target_location |-> <<>>, ret |-> Returned("none"), seed |-> NoSeed]

InitDet == InitEnv /\ twin = NewTwin /\ paid = 0

TwinFinishInit(a, tgt) ==
    twin' = [twin EXCEPT !.target = tgt,
                         !.pc = InitCall(a, tgt).pc,
                         !.init_target = InitCall(a, tgt).init_target,
                         !.ret = InitCall(a, tgt).ret]

TwinConstruct(a) ==
    IF a.target_location.kind = "count"
    THEN IF LoopRuns(<<>>, a.target_location.n)
         THEN twin' = [twin EXCEPT !.pc = "sampling"]
         ELSE TwinFinishInit(a, <<>>)
    ELSE TwinFinishInit(a, a.target_location.list)

TwinSampleTarget(new) ==
    /\ twin.pc = "sampling"
    /\ pc # "new"
    /\ LET tgt == SampleCall(twin.target, init_agent, new)
       IN  IF LoopRuns(tgt, args.target_location.n)
           THEN twin' = [twin EXCEPT !.target = tgt]
           ELSE TwinFinishInit(args, tgt)
    /\ UNCHANGED <<pc, args, objvars, target, rendervars, agent_location,
                   target_location, ret>>

TwinConstructed == twin.pc \in {"UNINITIALIZED", "READY"}

ResetBoth(seed, drawn, twinDrawn) ==
    /\ TwinConstructed
    /\ Reset(seed, drawn)
    /\ LET r == ResetCall(twin.pc, twin.agent_location, twin.target_location,
                          twin.init_target, seed, twinDrawn)
       IN  twin' = [twin EXCEPT !.pc = r.pc,
                                !.agent_location = r.agent_location,
                                !.target_location = r.target_location,
                                !.ret = r.ret,
                                !.seed = seed]

StepBoth(action) ==
    /\ TwinConstructed
    /\ Step(action)
    /\ LET r == StepCall(twin.pc, twin.agent_location, twin.target_location, action)
       IN  twin' = [twin EXCEPT !.agent_location = r.agent_location, !.ret = r.ret]

\* The two runs are compared without rendering and with the default rewards.
DetArgSets == {a \in ArgSets : a.render_mode = "None" /\ a.term_reward = 1}

NextDet ==
    \/ pc = "new" /\ \E a \in DetArgSets :
          Construct(a) /\ TwinConstruct(a) /\ UNCHANGED paid
    \/ \E new \in RandPositions(row, col) : SampleTarget(new) /\ UNCHANGED observers
    \/ \E new \in RandPositions(row, col) : TwinSampleTarget(new) /\ UNCHANGED paid
    \/ \E seed \in SeedArgs, drawn, twinDrawn \in RandPositions(row, col) :
          ResetBoth(seed, drawn, twinDrawn) /\ UNCHANGED paid
    \/ \E action \in ActionArgs : StepBoth(action) /\ UNCHANGED paid

SpecDet == InitDet /\ [][NextDet]_vars

\* C10 (as claimed): two runs constructed alike and last reset with the same seed
\* agree on the agent position and the target set, and on what each following
\* step returns.
C10_SeededResetDeterministic ==
    (pc = "READY" /\ twin.pc = "READY" /\ twin.seed # NoSeed) =>
        /\ agent_location = twin.agent_location
        /\ target_location = twin.target_location
        /\ ret = twin.ret


\* ---------------------------------------------------------------- C11 .. C20
\* The action points out of the grid at position p.
Outward(p, a) ==
    \/ a = 0 /\ p[2] = col - 1
    \/ a = 1 /\ p[1] = 0
    \/ a = 2 /\ p[2] = 0
    \/ a = 3 /\ p[1] = row - 1

\* C11: a step whose action points out of the grid at the agent's cell leaves the
\* agent position unchanged, so the same action can be repeated without effect.
C11_OutwardStepStays ==
    [][(pc = "READY" /\ ret'.op = "step" /\ ret'.action \in 0 .. 3
           /\ Outward(agent_location, ret'.action))
          => /\ agent_location' = agent_location
             /\ Outward(agent_location', ret'.action)]_vars

\* C11 witness: on a grid of one column, where every step to the right points
\* out of the grid, such a step has returned with the agent in row 1.
C11_Witness ==
    /\ StepReturned /\ ret.action = 0
    /\ row = 2 /\ col = 1
    /\ agent_location = <<1, 0>>


\* ---------------------------------------------------------------- the 5 x 5 grid
\* The default grid size of __init__.
DefaultRow == 5
DefaultCol == 5

\* Constructions on the default grid: the agent random or placed at (0,0), one
\* random target or one explicit target, no rendering, the default rewards.
DefaultGridArgSets ==
    {Args(agent, tgt, "None", DefaultRow, DefaultCol, <<1, 0>>) :
        agent \in {NoPos, <<0, 0>>},
        tgt \in {CountArg(1), ListArg(<<<<0, 1>>>>), ListArg(<<<<2, 2>>>>)}}

NextDefaultGrid ==
    \/ pc = "new" /\ \E a \in DefaultGridArgSets : Construct(a) /\ UNCHANGED observers
    \/ \E new \in RandPositions(row, col) : SampleTarget(new) /\ UNCHANGED observers
    \/ \E seed \in SeedArgs, drawn \in RandPositions(row, col) :
          Reset(seed, drawn) /\ UNCHANGED observers
    \/ \E action \in ActionArgs : Step(action) /\ UNCHANGED observers
    \/ Render /\ UNCHANGED observers
    \/ Close /\ UNCHANGED observers

SpecDefaultGrid == Init /\ [][NextDefaultGrid]_vars

\* C12 (as claimed): on a 5 x 5 grid with the agent placed at (0,0), a step to the
\* right issued right after reset returns with the agent at (0,1), the step
\* reward and terminated false.
C12_ResetThenRight ==
    [][(row = DefaultRow /\ col = DefaultCol /\ init_agent = <<0, 0>>
           /\ ret.op = "reset" /\ ret'.op = "step" /\ ret'.action = 0)
          => /\ ret'.raised = "none"
             /\ agent_location' = <<0, 1>>
             /\ ret'.reward = step_reward
             /\ ~ret'.terminated]_vars


\* C13 (as claimed): once reset has run, the target set holds at least one
\* position, whatever target specification the constructor accepted.
C13_TargetSetNonEmpty == pc = "READY" => Len(target_location) >= 1


\* ---------------------------------------------------------------- episodes
\* The same program with an observer: paid counts the steps since the last reset
\* that returned the terminal reward (it stops counting at MaxPaid).  The rewards
\* are the defaults, so the terminal reward differs from the step reward.
PaidArgSets == {a \in ArgSets : a.term_reward = 1}

PaidAfterReset == IF ret'.op = "reset" /\ ret'.raised # "ValueError" THEN 0 ELSE paid

PaidAfterStep ==
    IF ret'.raised = "none" /\ ret'.reward = term_reward
    THEN Min(paid + 1, MaxPaid) ELSE paid

NextPaid ==
    \/ pc = "new" /\ \E a \in PaidArgSets : Construct(a) /\ UNCHANGED observers
    \/ \E new \in RandPositions(row, col) : SampleTarget(new) /\ UNCHANGED observers
    \/ \E seed \in SeedArgs, drawn \in RandPositions(row, col) :
          Reset(seed, drawn) /\ paid' = PaidAfterReset /\ UNCHANGED twin
    \/ \E action \in ActionArgs : Step(action) /\ paid' = PaidAfterStep /\ UNCHANGED twin
    \/ Render /\ UNCHANGED observers
    \/ Close /\ UNCHANGED observers

SpecPaid == Init /\ [][NextPaid]_vars

OnTarget(p, targets) == \E i \in 1 .. Len(targets) : targets[i] = p

\* C14 (as claimed): between two resets at most one step returns the terminal
\* reward.
C14_TerminalRewardOnce == paid <= 1

\* C14 (amended): every step that returns pays the terminal reward exactly when
\* the agent's position after the move is on a target, however many steps since
\* the last reset have paid it already; otherwise it pays the step reward.
C14_TerminalRewardOnEveryArrival ==
    [][(ret'.op = "step" /\ ret'.raised = "none") =>
          \A n \in 0 .. MaxPaid : paid = n =>
              IF OnTarget(agent_location', target_location')
              THEN ret'.reward = term_reward /\ paid' = Min(n + 1, MaxPaid)
              ELSE ret'.reward = step_reward /\ paid' = n]_vars

\* C14 witness: a step has returned the terminal reward for the second time since
\* the last reset.
C14_Witness == paid = 2 /\ StepReturned /\ ret.reward = term_reward


\* C15: a step issued right after a step that returned terminated = true returns
\* too: it moves the agent by the action's direction with clamping and reports
\* terminated and the reward from the new position; no reset is needed.
C15_StepAfterTermination ==
    [][(ret.op = "step" /\ ret.raised = "none" /\ ret.terminated
           /\ ret'.op = "step" /\ ret'.action \in 0 .. 3)
          => /\ ret'.raised = "none"
             /\ pc' = "READY"
             /\ agent_location' = C4_Expected(agent_location, ret'.action)
             /\ ret'.terminated <=> OnTarget(agent_location', target_location')
             /\ ret'.reward = IF ret'.terminated THEN term_reward ELSE step_reward]_vars

\* C15 witness: after a step of this episode returned the terminal reward, a
\* later step has returned with the agent moved off the targets.
C15_Witness ==
    /\ paid >= 1
    /\ StepReturned /\ ~ret.terminated
    /\ ~OnTarget(agent_location, target_location)


\* C16: close never fails, whether called before reset, before any frame or
\* after another close; it leaves the agent position and the target set alone,
\* and a close that follows a close changes nothing at all.
C16_CloseIdempotent ==
    [][ret'.op = "close" =>
          /\ ret'.raised = "none"
          /\ pc' = pc
          /\ agent_location' = agent_location
          /\ target_location' = target_location
          /\ init_target' = init_target
          /\ window' = window /\ clock' = clock
          /\ ret.op = "close" => display' = display]_vars

\* C16 witness: close has returned on an environment that was never reset and
\* never drew a frame.
C16_Witness ==
    /\ pc = "UNINITIALIZED" /\ render_mode = "human"
    /\ ret = Returned("close")
    /\ window = "None" /\ display = "none"


\* C17: a step changes neither the target set (positions and order) nor the grid
\* dimensions nor the reward constants; the target set stays the one the last
\* reset installed.
C17_StepKeepsTargets ==
    [][ret'.op = "step" =>
          /\ target_location' = target_location
          /\ init_target' = init_target
          /\ row' = row /\ col' = col
          /\ term_reward' = term_reward /\ step_reward' = step_reward
          /\ pc = "READY" => target_location' = init_target]_vars

\* C17 witness: a terminating step has returned and the target set still holds
\* the two targets it was constructed with, the reached one included.
C17_Witness ==
    /\ StepReturned /\ ret.terminated
    /\ Len(init_target) = 2
    /\ target_location = init_target
    /\ OnTarget(agent_location, target_location)


\* C18 (as claimed): with a requested target count of at least rows*cols, with or
\* without an explicit agent position, construction never gets out of its
\* sampling loop.
C18_UnsatisfiableNeverConstructs ==
    (pc # "new" /\ ByCount /\ args.target_location.n >= row * col) => pc = "sampling"


\* The last call was a reset or a step that got as far as drawing a frame.
FrameDrawn ==
    /\ render_mode = "human"
    /\ ret.op \in {"reset", "step"}
    /\ ret.raised \in {"none", "pygame.error"}

\* C19 (as claimed): the window and the clock exist only in human mode and only
\* once a reset or step has drawn a frame; close releases them; and no reset or
\* step draws a frame to a window that close has released.
C19_WindowLazyAndReleased ==
    /\ (render_mode # "human" \/ pc # "READY") => window = "None" /\ clock = "None"
    /\ (render_mode = "human" /\ pc = "READY") => window = "created" /\ clock = "created"
    /\ (ret.op = "close" /\ window # "None") => display = "quit"
    /\ FrameDrawn => display = "open"


\* C20: on a constructed environment that was never reset every step raises and
\* changes nothing; no agent position exists while the environment is not READY;
\* and only a reset takes the environment to READY.
C20_NoStepBeforeReset ==
    [][/\ (pc = "UNINITIALIZED" /\ ret'.op = "step") =>
             /\ ret'.raised \in {"AttributeError", "KeyError"}
             /\ pc' = "UNINITIALIZED"
             /\ target_location' = target_location
       /\ pc' # "READY" => agent_location' = NoPos
       /\ (pc # "READY" /\ pc' = "READY") => ret'.op = "reset"]_vars

\* C20 witness: a step with the valid action 0 has raised AttributeError on an
\* environment that was constructed and never reset.
C20_Witness ==
    /\ pc = "UNINITIALIZED"
    /\ ret = Raised("step", 0, "AttributeError")
    /\ agent_location = NoPos

====
